---- MODULE Spec2Model ----
(***************************************************************************)
(* Model of the Recruitment Agent backend (src/main.py): the upload text   *)
(* extractor _read_upload_text, the scoring loop of match_resumes with its *)
(* inline response parser, and the final ranking.                          *)
(*                                                                         *)
(* A response text is a sequence of lexemes (strings): the punctuation of  *)
(* JSON, JSON literals written as they appear in the text, and prose       *)
(* words.  White space between lexemes is not represented.                 *)
(***************************************************************************)
EXTENDS Integers, Sequences, FiniteSets, TLC

\* ------------------------------------------------------------------ bounds
\* Longest batch of resumes enumerated lexeme by lexeme.
MaxBatch == 3
\* Longest run of prose lexemes before and after the body of a response.
MaxProse == 2
\* Longest raw content of an upload, in bytes.
MaxBytes == 3

\* ------------------------------------------------------- program constants
\* "Maximum 20 resumes allowed"
MaxResumes == 20

\* --------------------------------------------------------------- JSON values
JInt(n) == [k |-> "int", n |-> n]
\* A float with one decimal digit, held in tenths: 85.7 is JFloat(857).
JFloat(t) == [k |-> "float", n |-> t]
JStr(s) == [k |-> "str", s |-> s]
JBool(b) == [k |-> "bool", b |-> b]
JNull == [k |-> "null"]
JList(xs) == [k |-> "list", xs |-> xs]
\* ms: a function from the keys (strings) to values, as a Python dict.
JObj(ms) == [k |-> "obj", ms |-> ms]

EmptyDict == [z \in {} |-> JNull]

\* ------------------------------------------------------------------ lexemes
StringLexemes ==
    {"\"score\"", "\"missing_skills\"", "\"remarks\"", "\"AWS\"", "\"Strong fit\"",
     "\"85\"", "\"abc\"", "\"\""}
NumberLexemes == {"85", "40", "150", "-5", "0", "5", "85.7", "-5.5"}
OtherLiterals == {"null", "true", "false"}
ProseWords == {"Sure"}

\* The Python string a JSON string lexeme denotes.
StringOf(tok) ==
    CASE tok = "\"score\"" -> "score"
      [] tok = "\"missing_skills\"" -> "missing_skills"
      [] tok = "\"remarks\"" -> "remarks"
      [] tok = "\"AWS\"" -> "AWS"
      [] tok = "\"Strong fit\"" -> "Strong fit"
      [] tok = "\"85\"" -> "85"
      [] tok = "\"abc\"" -> "abc"
      [] tok = "\"\"" -> ""

\* The value json.loads gives a literal lexeme.
LiteralValue(tok) ==
    CASE tok \in StringLexemes -> JStr(StringOf(tok))
      [] tok = "85" -> JInt(85)
      [] tok = "40" -> JInt(40)
      [] tok = "150" -> JInt(150)
      [] tok = "-5" -> JInt(-5)
      [] tok = "0" -> JInt(0)
      [] tok = "5" -> JInt(5)
      [] tok = "85.7" -> JFloat(857)
      [] tok = "-5.5" -> JFloat(-55)
      [] tok = "null" -> JNull
      [] tok = "true" -> JBool(TRUE)
      [] tok = "false" -> JBool(FALSE)

IsLiteral(tok) == tok \in StringLexemes \cup NumberLexemes \cup OtherLiterals

\* ------------------------------------------------------------- json.loads
ParseFail(p) == [ok |-> FALSE, v |-> JNull, p |-> p]
ParseOk(v, p) == [ok |-> TRUE, v |-> v, p |-> p]

DictPut(d, key, v) == [z \in DOMAIN d \cup {key} |-> IF z = key THEN v ELSE d[z]]

RECURSIVE ParseValue(_, _)
RECURSIVE ParsePairs(_, _, _)
RECURSIVE ParseElements(_, _, _)

\* After the value r of the member whose key is at p: "," and the next
\* member, or "}".  A repeated key keeps its last value.
PairsAfter(t, p, acc, r) ==
    IF ~r.ok THEN ParseFail(p)
    ELSE IF r.p <= Len(t) /\ t[r.p] = ","
    THEN ParsePairs(t, r.p + 1, DictPut(acc, StringOf(t[p]), r.v))
    ELSE IF r.p <= Len(t) /\ t[r.p] = "}"
    THEN ParseOk(JObj(DictPut(acc, StringOf(t[p]), r.v)), r.p + 1)
    ELSE ParseFail(p)

\* The members of an object after "{" or ",": "key" : value, and what follows.
ParsePairs(t, p, acc) ==
    IF p + 1 <= Len(t) /\ t[p] \in StringLexemes /\ t[p + 1] = ":"
    THEN CHOOSE out \in {PairsAfter(t, p, acc, r) : r \in {ParseValue(t, p + 2)}} : TRUE
    ELSE ParseFail(p)

\* After the element r of an array: "," and the next element, or "]".
ElementsAfter(t, p, acc, r) ==
    IF ~r.ok THEN ParseFail(p)
    ELSE IF r.p <= Len(t) /\ t[r.p] = ","
    THEN ParseElements(t, r.p + 1, Append(acc, r.v))
    ELSE IF r.p <= Len(t) /\ t[r.p] = "]"
    THEN ParseOk(JList(Append(acc, r.v)), r.p + 1)
    ELSE ParseFail(p)

\* The elements of an array after "[" or ",": a value, and what follows.
ParseElements(t, p, acc) ==
    CHOOSE out \in {ElementsAfter(t, p, acc, r) : r \in {ParseValue(t, p)}} : TRUE

\* One JSON value starting at lexeme p; .p is the position after it.
ParseValue(t, p) ==
    IF p > Len(t) THEN ParseFail(p)
    ELSE IF t[p] = "{"
         THEN IF p + 1 <= Len(t) /\ t[p + 1] = "}"
              THEN ParseOk(JObj(EmptyDict), p + 2)
              ELSE ParsePairs(t, p + 1, EmptyDict)
    ELSE IF t[p] = "["
         THEN IF p + 1 <= Len(t) /\ t[p + 1] = "]"
              THEN ParseOk(JList(<< >>), p + 2)
              ELSE ParseElements(t, p + 1, << >>)
    ELSE IF IsLiteral(t[p]) THEN ParseOk(LiteralValue(t[p]), p + 1)
    ELSE ParseFail(p)

\* json.loads: one value and nothing after it, else JSONDecodeError.
json_loads(t) ==
    CHOOSE out \in {IF r.ok /\ r.p = Len(t) + 1 THEN [ok |-> TRUE, v |-> r.v]
                    ELSE [ok |-> FALSE, v |-> JNull] : r \in {ParseValue(t, 1)}} : TRUE

\* --------------------------------------------------------------- re.search
\* re.search(r"(\{.*\})", text, re.S): the leftmost "{" that a "}" follows,
\* and, the star being greedy, the last "}" of the text.
\* As re_search with a lazy star, r"(\{.*?\})": the first "}" after the "{".
re_search_lazy(t) ==
    LET opens == {q \in 1..Len(t) : t[q] = "{"}
        closes == {q \in 1..Len(t) : t[q] = "}"}
        starts == {q \in opens : \E c \in closes : c > q}
        lo == CHOOSE q \in starts : \A o \in starts : q <= o
        after == {c \in closes : c > lo}
    IN  IF starts = {} THEN [found |-> FALSE, lo |-> 0, hi |-> 0]
        ELSE [found |-> TRUE, lo |-> lo,
              hi |-> CHOOSE c \in after : \A o \in after : c <= o]

re_search(t) ==
    LET opens == {q \in 1..Len(t) : t[q] = "{"}
        closes == {q \in 1..Len(t) : t[q] = "}"}
        starts == {q \in opens : \E c \in closes : c > q}
    IN  IF starts = {} THEN [found |-> FALSE, lo |-> 0, hi |-> 0]
        ELSE [found |-> TRUE,
              lo |-> CHOOSE q \in starts : \A o \in starts : q <= o,
              hi |-> CHOOSE c \in closes : \A o \in closes : o <= c]


\* ----------------------------------------------------------- Python values
\* str(n) for the integers the lexemes denote.
IntStr(n) ==
    CASE n = 85 -> "85"
      [] n = 40 -> "40"
      [] n = 150 -> "150"
      [] n = -5 -> "-5"
      [] n = 0 -> "0"
      [] n = 5 -> "5"

\* str(x) for a float held in tenths.
FloatStr(t) ==
    CASE t = 857 -> "85.7"
      [] t = -55 -> "-5.5"

\* str(v): a str is itself, None is "None", a bool is "True" or "False".
py_str(v) ==
    CASE v.k = "str" -> v.s
      [] v.k = "int" -> IntStr(v.n)
      [] v.k = "float" -> FloatStr(v.n)
      [] v.k = "null" -> "None"
      [] v.k = "bool" -> (IF v.b THEN "True" ELSE "False")
      [] v.k = "obj" -> "{...}"
      [] v.k = "list" -> "[...]"

\* int(v): an int is itself, a bool is 0 or 1, a float is truncated towards
\* zero, a str is parsed as a decimal integer (ValueError otherwise), and
\* None, a list or a dict raise TypeError.
py_int(v) ==
    CASE v.k = "int" -> [exc |-> "none", n |-> v.n]
      [] v.k = "bool" -> [exc |-> "none", n |-> IF v.b THEN 1 ELSE 0]
      [] v.k = "float" ->
            [exc |-> "none",
             n |-> IF v.n >= 0 THEN v.n \div 10 ELSE -((-v.n) \div 10)]
      [] v.k = "str" ->
            (IF v.s = "85" THEN [exc |-> "none", n |-> 85]
             ELSE [exc |-> "ValueError", n |-> 0])
      [] OTHER -> [exc |-> "TypeError", n |-> 0]

\* bool(v): None, False, zero and the empty str, list and dict are falsy.
py_truthy(v) ==
    CASE v.k = "null" -> FALSE
      [] v.k = "bool" -> v.b
      [] v.k = "int" -> v.n # 0
      [] v.k = "float" -> v.n # 0
      [] v.k = "str" -> v.s # ""
      [] v.k = "list" -> v.xs # << >>
      [] v.k = "obj" -> DOMAIN v.ms # {}

\* parsed.get(key, default)
dict_get(d, key, default) == IF key \in DOMAIN d.ms THEN d.ms[key] ELSE default

\* -------------------------------------------------------- _gemini_generate
\* The generation service answers with a text, with no text (resp.text is
\* None) or fails; any failure is re-raised as HTTPException(500).
gemini_generate(gen) ==
    IF gen.kind = "error" THEN [exc |-> "HTTPException", text |-> << >>]
    ELSE IF gen.kind = "none" THEN [exc |-> "none", text |-> << >>]
    ELSE [exc |-> "none", text |-> gen.text]

\* ------------------------------------------- match_resumes: the try block
Raise(exc) == [exc |-> exc, score |-> 0, missing_skills |-> << >>, remarks |-> JStr("")]

\* As fields_of with [missing_skills] for [str(missing_skills)].
fields_of_without_str(parsed) ==
    LET ms == dict_get(parsed, "missing_skills", JList(<< >>))
        rm == dict_get(parsed, "remarks", JStr(""))
        field(sc) ==
            IF sc.exc # "none" THEN Raise(sc.exc)
            ELSE [exc |-> "none",
                  score |-> sc.n,
                  missing_skills |-> IF ms.k = "list" THEN ms.xs ELSE <<ms>>,
                  remarks |-> IF py_truthy(rm) THEN rm ELSE JStr("")]
    IN  CHOOSE out \in {field(sc) : sc \in {py_int(dict_get(parsed, "score", JInt(0)))}} : TRUE

\* Lines 203-208 on the parsed object: the score coerced, the missing
\* skills made a list, the remarks defaulted.
fields_of(parsed) ==
    LET ms == dict_get(parsed, "missing_skills", JList(<< >>))
        rm == dict_get(parsed, "remarks", JStr(""))
        field(sc) ==
            IF sc.exc # "none" THEN Raise(sc.exc)
            ELSE [exc |-> "none",
                  score |-> sc.n,
                  missing_skills |->
                      IF ms.k = "list" THEN ms.xs ELSE <<JStr(py_str(ms))>>,
                  remarks |-> IF py_truthy(rm) THEN rm ELSE JStr("")]
    IN  CHOOSE out \in {field(sc) : sc \in {py_int(dict_get(parsed, "score", JInt(0)))}} : TRUE

\* Lines 198-202: the text json.loads is given, the match of the regular
\* expression if there is one and the whole text otherwise.
json_text(resp_text) ==
    CHOOSE out \in {IF ~m.found THEN resp_text ELSE SubSeq(resp_text, m.lo, m.hi) :
                    m \in {re_search(resp_text)}} : TRUE

\* Lines 198-208 on a response text: the exception raised, or the three
\* fields as the block leaves them.
parse_response(resp_text) ==
    LET after(loaded) ==
            IF ~loaded.ok THEN Raise("JSONDecodeError")
            ELSE IF loaded.v.k # "obj" THEN Raise("AttributeError")
            ELSE fields_of(loaded.v)
    IN  CHOOSE out \in {after(loaded) : loaded \in {json_loads(json_text(resp_text))}} : TRUE

\* Lines 195-208: the generation call, then the parsing of its text.
try_block(gen) ==
    IF gemini_generate(gen).exc # "none" THEN Raise(gemini_generate(gen).exc)
    ELSE parse_response(gemini_generate(gen).text)

\* "except Exception": every exception the block raises is an Exception.
ExceptionClasses ==
    {"HTTPException", "JSONDecodeError", "AttributeError", "TypeError", "ValueError"}

\* As Caught for "except json.JSONDecodeError".
CaughtDecodeErrorOnly(exc) == exc = "JSONDecodeError"

\* As Caught for "except (ValueError, TypeError, AttributeError)"; a
\* JSONDecodeError is a ValueError.
CaughtParsingErrorsOnly(exc) == exc \in ExceptionClasses \ {"HTTPException"}

Caught(exc) == exc \in ExceptionClasses

\* f"Scoring failed: {e}"
FailureRemark(exc) ==
    CASE exc = "HTTPException" -> "Scoring failed: 500: Gemini API error"
      [] exc = "JSONDecodeError" -> "Scoring failed: Expecting value"
      [] exc = "AttributeError" -> "Scoring failed: object has no attribute 'get'"
      [] exc = "TypeError" -> "Scoring failed: int() argument must be a string or a number"
      [] exc = "ValueError" -> "Scoring failed: invalid literal for int() with base 10"

\* Lines 209-220: the block b having ended, the record appended, or the
\* exception that leaves the loop.
record_of(filename, b) ==
    IF b.exc = "none"
    THEN [exc |-> "none",
          rec |-> [filename |-> filename, score |-> b.score,
                   missing_skills |-> b.missing_skills, remarks |-> b.remarks]]
    ELSE IF Caught(b.exc)
    THEN [exc |-> "none",
          rec |-> [filename |-> filename, score |-> 0,
                   missing_skills |-> << >>, remarks |-> JStr(FailureRemark(b.exc))]]
    ELSE [exc |-> b.exc,
          rec |-> [filename |-> filename, score |-> 0,
                   missing_skills |-> << >>, remarks |-> JStr("")]]

\* Lines 194-220 for one resume and one answer of the generation service.
score_record(filename, gen) ==
    CHOOSE out \in {record_of(filename, b) : b \in {try_block(gen)}} : TRUE

\* ------------------------------------------------------------ results.sort
Reverse(s) == [q \in 1..Len(s) |-> s[Len(s) + 1 - q]]

\* x placed after every element whose score is not greater: a stable insert.
InsertByScore(sorted, x) ==
    LET before == {q \in 1..Len(sorted) : sorted[q].score <= x.score}
        n == Cardinality(before)
    IN  SubSeq(sorted, 1, n) \o <<x>> \o SubSeq(sorted, n + 1, Len(sorted))

RECURSIVE SortAscending(_)
\* The stable ascending sort of a list by score: each element in turn is
\* inserted into the sorted elements before it.
SortAscending(s) ==
    IF s = << >> THEN << >>
    ELSE CHOOSE out \in {InsertByScore(pre, s[Len(s)]) :
                         pre \in {SortAscending(SubSeq(s, 1, Len(s) - 1))}} : TRUE

\* As sort_results for a sort ascending that is reversed afterwards.
sort_then_reverse(s) ==
    CHOOSE out \in {Reverse(a) : a \in {SortAscending(s)}} : TRUE

\* list.sort(key=score, reverse=True): the list is reversed, sorted ascending
\* (stable) and reversed again.
sort_results(s) ==
    CHOOSE out \in {Reverse(a) : a \in {SortAscending(r) : r \in {Reverse(s)}}} : TRUE

\* Lines 223-225: the ranking, and the best candidate (<< >> is None).
rank(s) ==
    CHOOSE out \in {[matches |-> sorted,
                     best |-> IF sorted # << >> THEN <<sorted[1]>> ELSE << >>] :
                    sorted \in {sort_results(s)}} : TRUE

\* ------------------------------------------------------- _read_upload_text
\* Texts and contents are sequences of numbers: bytes before decoding, code
\* points after.
Newline == <<10>>
ReplacementMarker == <<65533>>

\* The bytes contents are made of: "A", the two bytes of U+00E9 (0xC3 0xA9)
\* and 0xFF, which no UTF-8 sequence holds.
ByteAlphabet == {65, 195, 169, 255}

IsAscii(b) == b < 128
IsLead2(b) == b \in 194..223
IsContinuation(b) == b \in 128..191

RECURSIVE utf8_decode(_, _, _)
\* bytes.decode("utf-8", errors) from byte p on, for contents of one- and
\* two-byte sequences: a byte that starts no well-formed sequence is an error
\* of length one, which "ignore" drops, "replace" turns into U+FFFD and
\* "strict" raises (.ok is FALSE).
utf8_decode(b, p, errors) ==
    IF p > Len(b) THEN [ok |-> TRUE, text |-> << >>]
    ELSE IF IsAscii(b[p])
    THEN LET r == utf8_decode(b, p + 1, errors) IN
         [ok |-> r.ok, text |-> <<b[p]>> \o r.text]
    ELSE IF IsLead2(b[p]) /\ p + 1 <= Len(b) /\ IsContinuation(b[p + 1])
    THEN LET r == utf8_decode(b, p + 2, errors) IN
         [ok |-> r.ok, text |-> <<(b[p] - 192) * 64 + (b[p + 1] - 128)>> \o r.text]
    ELSE IF errors = "strict" THEN [ok |-> FALSE, text |-> << >>]
    ELSE LET r == utf8_decode(b, p + 1, errors) IN
         [ok |-> r.ok,
          text |-> (IF errors = "replace" THEN ReplacementMarker ELSE << >>) \o r.text]

\* As DecodeErrors for content.decode("utf-8").
DecodeErrorsDefault == "strict"

\* The errors argument of line 57.
DecodeErrors == "ignore"

FileNames == {"a.txt", "B.PDF", "c.pdf", "d.docx", "e.doc", "notes"}

\* (up.filename or "").lower()
Lower(fname) == IF fname = "B.PDF" THEN "b.pdf" ELSE fname

\* The suffix fname.endswith tests.
Suffix(fname) ==
    CASE fname \in {"b.pdf", "c.pdf"} -> ".pdf"
      [] fname = "d.docx" -> ".docx"
      [] fname = "e.doc" -> ".doc"
      [] fname = "a.txt" -> ".txt"
      [] OTHER -> ""

RECURSIVE JoinLines(_)
\* "\n".join(texts)
JoinLines(texts) ==
    IF texts = << >> THEN << >>
    ELSE IF Len(texts) = 1 THEN texts[1]
    ELSE texts[1] \o Newline \o JoinLines(Tail(texts))

\* p.extract_text() or "": a page without text gives the empty string.
PageText(page) == IF page.has THEN page.text ELSE << >>

\* Lines 48-57: the extraction proper.  up.doc is what the PDF or DOCX
\* library makes of the content: an error, or the pages (paragraphs).
extract_text(up, content) ==
    LET fname == Lower(up.filename) IN
    IF Suffix(fname) = ".pdf"
    THEN IF ~up.doc.ok THEN [exc |-> "PDFSyntaxError", text |-> << >>]
         ELSE [exc |-> "none",
               text |-> JoinLines([q \in 1..Len(up.doc.pages) |-> PageText(up.doc.pages[q])])]
    ELSE IF Suffix(fname) \in {".docx", ".doc"}
    THEN IF ~up.doc.ok THEN [exc |-> "PackageNotFoundError", text |-> << >>]
         ELSE [exc |-> "none",
               text |-> JoinLines([q \in 1..Len(up.doc.pages) |-> up.doc.pages[q].text])]
    ELSE LET d == utf8_decode(content, 1, DecodeErrors) IN
         IF d.ok THEN [exc |-> "none", text |-> d.text]
         ELSE [exc |-> "UnicodeDecodeError", text |-> << >>]

\* Lines 58-62: up.file.close() in the finally clause; what close() raises
\* is swallowed, and the stream is closed unless the failed close left it open.
close_stream(up) == up.close # "raises_open"

\* _read_upload_text(up): the exception it raises ("none" for a return),
\* the text it returns and whether the stream is closed when it ends.  The
\* read of line 46 is before the try statement: when it raises, the finally
\* clause is not run.
read_upload_text(up) ==
    IF up.read_raises
    THEN [exc |-> "OSError", text |-> << >>, closed |-> FALSE]
    ELSE LET r == extract_text(up, up.content) IN
         [exc |-> r.exc, text |-> r.text, closed |-> close_stream(up)]

\* ------------------------------------------------------------------ inputs
SeqsUpTo(S, n) == UNION {[1..m -> S] : m \in 0..n}

Contents == SeqsUpTo(ByteAlphabet, MaxBytes)

CorruptDoc == [ok |-> FALSE, pages |-> << >>]
DocOutcomes ==
    {CorruptDoc,
     [ok |-> TRUE, pages |-> << >>],
     [ok |-> TRUE,
      pages |-> <<[has |-> TRUE, text |-> <<65>>], [has |-> FALSE, text |-> << >>]>>]}

CloseOutcomes == {"ok", "raises_closed", "raises_open"}

\* Every upload: a file name, the bytes of the stream, whether reading the
\* stream fails, what close() does and what the document library finds.
AllUploads ==
    [filename : FileNames, content : Contents, read_raises : BOOLEAN,
     close : CloseOutcomes, doc : DocOutcomes]

GoodTxt ==
    [filename |-> "a.txt", content |-> <<65, 255>>, read_raises |-> FALSE,
     close |-> "ok", doc |-> CorruptDoc]
GoodPdf ==
    [filename |-> "B.PDF", content |-> <<65>>, read_raises |-> FALSE, close |-> "ok",
     doc |-> [ok |-> TRUE,
              pages |-> <<[has |-> TRUE, text |-> <<65>>], [has |-> FALSE, text |-> << >>]>>]]
CorruptPdf ==
    [filename |-> "c.pdf", content |-> <<255>>, read_raises |-> FALSE,
     close |-> "ok", doc |-> CorruptDoc]
Unreadable ==
    [filename |-> "d.docx", content |-> << >>, read_raises |-> TRUE,
     close |-> "ok", doc |-> CorruptDoc]

SampleUploads == {GoodTxt, GoodPdf, CorruptPdf, Unreadable}

\* The batches of a request: every short one, and one over the limit.
Batches ==
    SeqsUpTo(SampleUploads, MaxBatch) \cup {[q \in 1..(MaxResumes + 1) |-> GoodTxt]}

\* jd_text: absent (None), empty, blank or a text.
NoText == [has |-> FALSE, text |-> << >>]
JdTexts == {NoText, [has |-> TRUE, text |-> << >>], [has |-> TRUE, text |-> <<32>>],
            [has |-> TRUE, text |-> <<74, 68>>]}
\* jd_file: absent (<< >>) or an upload.
JdFiles == {<< >>, <<GoodTxt>>, <<CorruptPdf>>}
JdModes == {"file", "text", "url"}

IsSpace(c) == c \in {32, 10}
RECURSIVE Strip(_)
\* str.strip()
Strip(t) ==
    IF t = << >> THEN t
    ELSE IF IsSpace(t[1]) THEN Strip(Tail(t))
    ELSE IF IsSpace(t[Len(t)]) THEN Strip(SubSeq(t, 1, Len(t) - 1))
    ELSE t

\* The members of an object body, joined by commas.
RECURSIVE JoinMembers(_)
JoinMembers(ms) ==
    IF ms = << >> THEN << >>
    ELSE IF ms[1] = << >> THEN JoinMembers(Tail(ms))
    ELSE LET rest == JoinMembers(Tail(ms)) IN
         IF rest = << >> THEN ms[1] ELSE ms[1] \o <<",">> \o rest

ScoreMembers ==
    {<< >>, <<"\"score\"", ":", "85">>, <<"\"score\"", ":", "150">>,
     <<"\"score\"", ":", "-5">>, <<"\"score\"", ":", "\"abc\"">>,
     <<"\"score\"", ":", "null">>, <<"\"score\"", ":", "85.7">>}
SkillMembers ==
    {<< >>, <<"\"missing_skills\"", ":", "[", "\"AWS\"", "]">>,
     <<"\"missing_skills\"", ":", "\"AWS\"">>, <<"\"missing_skills\"", ":", "5">>,
     <<"\"missing_skills\"", ":", "{", "\"remarks\"", ":", "\"AWS\"", "}">>}
RemarkMembers ==
    {<< >>, <<"\"remarks\"", ":", "\"Strong fit\"">>, <<"\"remarks\"", ":", "null">>}

\* The texts of JSON objects with the three keys present or absent.
ObjectBodies ==
    {<<"{">> \o JoinMembers(<<s, m, r>>) \o <<"}">> :
        s \in ScoreMembers, m \in SkillMembers, r \in RemarkMembers}

\* Bodies that are no JSON object: nothing, other JSON values, and objects
\* cut short or malformed.
OtherBodies ==
    {<< >>, <<"85">>, <<"[", "85", "]">>, <<"\"abc\"">>, <<"null">>,
     <<"{", "\"score\"", ":", "85">>, <<"{", "\"score\"", "85", "}">>,
     <<"{", "\"score\"", ":", "85", ",", "}">>}

Prose == SeqsUpTo(ProseWords \cup {"{", "}"}, MaxProse)

\* Every response text: a body between two runs of prose.
AllTexts == {pre \o body \o suf : pre \in Prose, suf \in Prose,
                                  body \in ObjectBodies \cup OtherBodies}

SampleTexts ==
    {<<"Sure", "{", "\"score\"", ":", "85", ",", "\"missing_skills\"", ":", "\"AWS\"",
       ",", "\"remarks\"", ":", "\"Strong fit\"", "}">>,
     <<"{", "\"score\"", ":", "85", "}">>,
     <<"{", "\"score\"", ":", "150", "}">>,
     <<"{", "\"score\"", ":", "40", ",", "\"missing_skills\"", ":", "[", "\"AWS\"", "]", "}">>,
     <<"Sure">>}

\* What the generation service may answer: an error, no text, or a text.
GenError == [kind |-> "error", text |-> << >>]
Answers(texts) ==
    {GenError, [kind |-> "none", text |-> << >>]}
        \cup {[kind |-> "text", text |-> t] : t \in texts}

\* ------------------------------------------------------------------- state
VARIABLES
    pc,         \* where match_resumes is: "validate", "read", "score", "done", "error"
    jd_raw,     \* the text of the job description
    resumes,    \* the uploads of the request
    i,          \* the position of the loop of line 191 in resumes
    res_text,   \* the text of the resume being scored
    resp_text,  \* the last text the generation call returned
    results,    \* the records appended so far; sorted in place at the end
    response,   \* what the request is answered with
    closed,     \* closed[q]: the stream of resumes[q] is closed
    jd_closed,  \* the stream of jd_file is closed
    answer,     \* the last answer of the generation service
    produced    \* history: the records in the order the loop appended them

vars == <<pc, jd_raw, resumes, i, res_text, resp_text, results, response,
          closed, jd_closed, answer, produced>>

NoResponse == [status |-> 0, detail |-> "", matches |-> << >>, best |-> << >>]
NoAnswer == [kind |-> "idle", text |-> << >>]

\* raise HTTPException(status_code=400, detail=...), and the 500 an
\* exception that leaves the handler is answered with.
ErrorResponse(status, detail) ==
    [status |-> status, detail |-> detail, matches |-> << >>, best |-> << >>]

\* Line 225: {"matches": results, "best_candidate": best}
OkResponse(ranked) ==
    [status |-> 200, detail |-> "", matches |-> ranked.matches, best |-> ranked.best]

\* As resumes_error without the check of line 185.
resumes_error_without_empty(batch) ==
    IF Len(batch) > MaxResumes THEN "Maximum 20 resumes allowed" ELSE ""

\* Lines 185-188: the detail of the error a batch is refused with, "" if none.
resumes_error(batch) ==
    IF batch = << >> THEN "At least one resume must be uploaded"
    ELSE IF Len(batch) > MaxResumes THEN "Maximum 20 resumes allowed"
    ELSE ""

\* Lines 174-188: the checks of the request.  status 0 is an accepted request.
validate(jd_mode, jd_file, jd_text, batch) ==
    LET refuse(detail, jc) ==
            [status |-> 400, detail |-> detail, jd_raw |-> << >>, jd_closed |-> jc]
        accept(text, jc) ==
            IF resumes_error(batch) # ""
            THEN [status |-> 400, detail |-> resumes_error(batch),
                  jd_raw |-> text, jd_closed |-> jc]
            ELSE [status |-> 0, detail |-> "", jd_raw |-> text, jd_closed |-> jc]
    IN  IF jd_mode \notin {"file", "text"}
        THEN refuse("jd_mode must be 'file' or 'text'", FALSE)
        ELSE IF jd_mode = "file"
        THEN IF jd_file = << >>
             THEN refuse("JD file required when jd_mode='file'", FALSE)
             ELSE LET r == read_upload_text(jd_file[1]) IN
                  IF r.exc # "none"
                  THEN [status |-> 500, detail |-> "Internal Server Error",
                        jd_raw |-> << >>, jd_closed |-> r.closed]
                  ELSE accept(r.text, r.closed)
        ELSE IF ~jd_text.has \/ jd_text.text = << >> \/ Strip(jd_text.text) = << >>
             THEN refuse("jd_text is required when jd_mode='text'", FALSE)
             ELSE accept(jd_text.text, FALSE)

Init ==
    /\ pc = "validate"
    /\ jd_raw = << >>
    /\ resumes = << >>
    /\ i = 0
    /\ res_text = << >>
    /\ resp_text = << >>
    /\ results = << >>
    /\ response = NoResponse
    /\ closed = << >>
    /\ jd_closed = FALSE
    /\ answer = NoAnswer
    /\ produced = << >>

\* match_resumes up to the loop: the request arrives and is checked.
Validate ==
    /\ pc = "validate"
    /\ \E jd_mode \in JdModes, jd_file \in JdFiles, jd_text \in JdTexts, batch \in Batches :
        \E v \in {validate(jd_mode, jd_file, jd_text, batch)} :
          /\ resumes' = batch
          /\ closed' = [q \in 1..Len(batch) |-> FALSE]
          /\ jd_raw' = v.jd_raw
          /\ jd_closed' = v.jd_closed
          /\ IF v.status # 0
             THEN /\ pc' = "error"
                  /\ response' = ErrorResponse(v.status, v.detail)
                  /\ i' = 0
             ELSE IF batch = << >>
             THEN /\ pc' = "done"
                  /\ response' = OkResponse(rank(<< >>))
                  /\ i' = 0
             ELSE /\ pc' = "read"
                  /\ response' = response
                  /\ i' = 1
    /\ UNCHANGED <<res_text, resp_text, results, answer, produced>>

\* Line 192: the text of resume i is extracted; an exception leaves the
\* handler and the request is answered with a 500.
ReadResume ==
    /\ pc = "read"
    /\ \E r \in {read_upload_text(resumes[i])} :
       /\ closed' = [closed EXCEPT ![i] = r.closed]
       /\ IF r.exc # "none"
          THEN /\ pc' = "error"
               /\ response' = ErrorResponse(500, "Internal Server Error")
               /\ res_text' = res_text
          ELSE /\ pc' = "score"
               /\ response' = response
               /\ res_text' = r.text
    /\ UNCHANGED <<jd_raw, resumes, i, resp_text, results, jd_closed, answer, produced>>

\* Lines 193-220 for resume i, and after the last resume lines 223-225: the
\* generation service answers, the record is appended, and the loop goes on
\* or the results are sorted and returned.
ScoreResume(answers) ==
    /\ pc = "score"
    /\ \E gen \in answers :
        \E r \in {score_record(resumes[i].filename, gen)} :
        \E ranked \in {rank(Append(results, r.rec))} :
              /\ answer' = gen
              /\ resp_text' = IF gen.kind = "error" THEN resp_text
                              ELSE gemini_generate(gen).text
              /\ IF r.exc # "none"
                 THEN /\ pc' = "error"
                      /\ response' = ErrorResponse(500, "Internal Server Error")
                      /\ UNCHANGED <<i, results, produced>>
                 ELSE /\ produced' = Append(produced, r.rec)
                      /\ IF i < Len(resumes)
                         THEN /\ pc' = "read"
                              /\ i' = i + 1
                              /\ results' = Append(results, r.rec)
                              /\ response' = response
                         ELSE /\ pc' = "done"
                              /\ i' = i
                              /\ results' = ranked.matches
                              /\ response' = OkResponse(ranked)
    /\ UNCHANGED <<jd_raw, resumes, res_text, closed, jd_closed>>

ScoreSample == ScoreResume(Answers(SampleTexts))
ScoreAny == ScoreResume(Answers(AllTexts))

Next == Validate \/ ReadResume \/ ScoreSample

\* A request with a batch of sample uploads and sample answers.
Spec == Init /\ [][Next]_vars

\* One call of _read_upload_text, for every upload.
InitRead ==
    /\ pc = "read"
    /\ jd_raw = <<74, 68>>
    /\ resumes \in {<<up>> : up \in AllUploads}
    /\ i = 1
    /\ res_text = << >>
    /\ resp_text = << >>
    /\ results = << >>
    /\ response = NoResponse
    /\ closed = <<FALSE>>
    /\ jd_closed = FALSE
    /\ answer = NoAnswer
    /\ produced = << >>

NextRead == ReadResume

SpecRead == InitRead /\ [][NextRead]_vars

\* The scoring of one resume, for every response text.
InitParse ==
    /\ pc = "score"
    /\ jd_raw = <<74, 68>>
    /\ resumes = <<GoodTxt>>
    /\ i = 1
    /\ res_text = read_upload_text(GoodTxt).text
    /\ resp_text = << >>
    /\ results = << >>
    /\ response = NoResponse
    /\ closed = <<TRUE>>
    /\ jd_closed = FALSE
    /\ answer = NoAnswer
    /\ produced = << >>

NextParse == ScoreAny

SpecParse == InitParse /\ [][NextParse]_vars

\* ================================================================== claims
Finished == pc \in {"done", "error"}

\* The request passed the checks of lines 174-188 and the loop was entered.
Accepted == i >= 1

FailureRemarks ==
    {JStr(FailureRemark(exc)) : exc \in ExceptionClasses}

\* The fallback record of lines 211-213.
IsFallback(rec) ==
    /\ rec.score = 0
    /\ rec.missing_skills = << >>
    /\ rec.remarks \in FailureRemarks
    /\ rec.remarks.s # ""

FileNamesOf(recs) == [q \in 1..Len(recs) |-> recs[q].filename]

\* The number of positions of s that hold x.
Count(s, x) == Cardinality({q \in 1..Len(s) : s[q] = x})

\* s and t hold the same elements the same number of times.
SameBag(s, t) ==
    /\ Len(s) = Len(t)
    /\ \A q \in 1..Len(s) : Count(s, s[q]) = Count(t, s[q])

\* C1: an accepted batch ends with a response whose matches hold exactly one
\* record per uploaded resume, whatever fails on the single documents,
\* extraction included.
C1_OneRecordPerResume ==
    (Finished /\ Accepted) =>
        /\ pc = "done"
        /\ response.status = 200
        /\ SameBag(FileNamesOf(response.matches), FileNamesOf(resumes))

\* C2: every record appended to the results has a score in 0..100.
C2_ScoreInRange ==
    \A q \in 1..Len(produced) : produced[q].score \in 0..100

\* ------------------------------------------ claims on one response text
\* The scoring step of the single resume of SpecParse has been taken on a
\* text the generation call returned.
Scored == pc # "score" /\ answer.kind # "error"

\* No "{" of the text is followed by a "}": nothing looks like an object.
NoBraces(t) == ~\E a \in 1..Len(t), b \in 1..Len(t) : a < b /\ t[a] = "{" /\ t[b] = "}"

\* The value of the text json.loads is given, if it is JSON.
Loaded(t) == json_loads(json_text(t))

Malformed(t) == ~Loaded(t).ok
NotAnObject(t) == Loaded(t).ok /\ Loaded(t).v.k # "obj"
ScoreNotCoercible(t) ==
    /\ Loaded(t).ok
    /\ Loaded(t).v.k = "obj"
    /\ py_int(dict_get(Loaded(t).v, "score", JInt(0))).exc # "none"

\* C3: the scoring of a response text always appends a record and never ends
\* the request with an error; a text with no "{...}" in it, malformed JSON,
\* JSON that is no object or a score int() refuses gives the fallback record:
\* score 0, no missing skills, a non-empty remark naming the failure.
C3_ParserNeverRaises ==
    pc # "score" =>
        /\ pc = "done"
        /\ response.status = 200
        /\ Len(produced) = 1
        /\ (Scored /\ (NoBraces(resp_text) \/ Malformed(resp_text)
                        \/ NotAnObject(resp_text) \/ ScoreNotCoercible(resp_text)))
              => IsFallback(produced[1])

\* C3 witness: a text of prose only was scored and gave the fallback record.
C3_Witness ==
    /\ pc = "done"
    /\ answer.kind = "text"
    /\ resp_text # << >>
    /\ NoBraces(resp_text)
    /\ IsFallback(produced[1])

\* The positions a..b of t hold the text of a JSON object.
IsObjectAt(t, a, b) ==
    /\ a <= b
    /\ t[a] = "{"
    /\ t[b] = "}"
    /\ json_loads(SubSeq(t, a, b)).ok
    /\ json_loads(SubSeq(t, a, b)).v.k = "obj"

\* The record lines 203-220 make of the object at a..b of t.
RecordOfObjectAt(t, a, b) ==
    record_of(resumes[1].filename, fields_of(json_loads(SubSeq(t, a, b)).v)).rec

\* C6 as stated: whatever prose surrounds the text of a JSON object (one with
\* a score int() accepts), the record holds the values of that object.
C6_AnySurroundingProse ==
    Scored =>
        \A a \in 1..Len(resp_text), b \in 1..Len(resp_text) :
            (/\ IsObjectAt(resp_text, a, b)
             /\ "score" \in DOMAIN json_loads(SubSeq(resp_text, a, b)).v.ms
             /\ \A q \in (1..(a - 1)) \cup ((b + 1)..Len(resp_text)) :
                    resp_text[q] \in ProseWords \cup {"{", "}"}
             /\ ~IsFallback(RecordOfObjectAt(resp_text, a, b)))
                => produced[1] = RecordOfObjectAt(resp_text, a, b)

\* C6 amended: when no "{" precedes the text of a JSON object and no "}"
\* follows it, that object is the one parsed, and the record is what lines
\* 203-220 make of it.
C6_ObjectBetweenBraceFreeProse ==
    Scored =>
        \A a \in 1..Len(resp_text), b \in 1..Len(resp_text) :
            (/\ IsObjectAt(resp_text, a, b)
             /\ \A q \in 1..(a - 1) : resp_text[q] # "{"
             /\ \A q \in (b + 1)..Len(resp_text) : resp_text[q] # "}")
                => produced[1] = RecordOfObjectAt(resp_text, a, b)

\* C6 witness: an object with prose before and after it (a "}" before, a
\* "{" after) was parsed and its score is in the record.
C6_Witness ==
    /\ Scored
    /\ \E a \in 2..Len(resp_text), b \in 1..(Len(resp_text) - 1) :
          /\ IsObjectAt(resp_text, a, b)
          /\ resp_text[a - 1] = "}"
          /\ resp_text[b + 1] = "{"
          /\ \A q \in 1..(a - 1) : resp_text[q] # "{"
          /\ \A q \in (b + 1)..Len(resp_text) : resp_text[q] # "}"
          /\ produced[1].score = 85
          /\ produced[1].remarks = JStr("Strong fit")

\* The parsed object holds a missing_skills value that is no list.
ScalarSkills(t) ==
    /\ Loaded(t).ok
    /\ Loaded(t).v.k = "obj"
    /\ "missing_skills" \in DOMAIN Loaded(t).v.ms
    /\ Loaded(t).v.ms["missing_skills"].k # "list"

\* The record holds the string form of the scalar as its one missing skill,
\* the coerced score and the remarks of the object.
SkillsWrapped(t, rec) ==
    LET obj == Loaded(t).v IN
    /\ rec.missing_skills = <<JStr(py_str(obj.ms["missing_skills"]))>>
    /\ rec.score = py_int(dict_get(obj, "score", JInt(0))).n
    /\ rec.remarks = (IF "remarks" \in DOMAIN obj.ms /\ py_truthy(obj.ms["remarks"])
                      THEN obj.ms["remarks"] ELSE JStr(""))

\* C10 as stated: whenever the parsed object's missing_skills is no list, the
\* record holds it wrapped, with the score and remarks of the object.
C10_ScalarAlwaysWrapped ==
    (Scored /\ ScalarSkills(resp_text)) => SkillsWrapped(resp_text, produced[1])

\* C10 amended: the same, when int() accepts the score of the object.
C10_ScalarWrappedWhenScoreCoerces ==
    (Scored /\ ScalarSkills(resp_text) /\ ~ScoreNotCoercible(resp_text))
        => SkillsWrapped(resp_text, produced[1])

\* C10 witness: a number given as missing_skills is in the record as the
\* one-element list of its string form, beside the score of the object.
C10_Witness ==
    /\ Scored
    /\ ScalarSkills(resp_text)
    /\ Loaded(resp_text).v.ms["missing_skills"] = JInt(5)
    /\ produced[1].missing_skills = <<JStr("5")>>
    /\ produced[1].score = 85

\* ------------------------------------------------ claims on the request
\* The place the stable descending sort gives the record at position j of s:
\* after the records of greater score and of the earlier ones of equal score.
PlaceOf(s, j) ==
    Cardinality({q \in 1..Len(s) : s[q].score > s[j].score})
        + Cardinality({q \in 1..j : s[q].score = s[j].score})

\* C4: the matches returned are sorted by score, descending; they are a
\* permutation of the records the loop produced; and records of equal score
\* keep the order of the uploads.
C4_SortedStablePermutation ==
    pc = "done" =>
        LET m == response.matches IN
        /\ results = m
        /\ Len(m) = Len(produced)
        /\ \A a \in 1..Len(m), b \in 1..Len(m) : a < b => m[a].score >= m[b].score
        /\ \A j \in 1..Len(produced) : m[PlaceOf(produced, j)] = produced[j]

\* C4 witness: three records, the first of a lower score than the two others,
\* which have the same score and differ, were returned, best first.
C4_Witness ==
    /\ pc = "done"
    /\ Len(produced) = 3
    /\ produced[1].score < produced[2].score
    /\ produced[2].score = produced[3].score
    /\ produced[2] # produced[3]
    /\ response.matches = <<produced[2], produced[3], produced[1]>>

JdErrorDetails ==
    {"jd_mode must be 'file' or 'text'", "JD file required when jd_mode='file'",
     "jd_text is required when jd_mode='text'"}

\* The request was answered, held no resume and had a usable job description.
EmptyBatchAnswered ==
    /\ Finished
    /\ resumes = << >>
    /\ response.status # 500
    /\ response.detail \notin JdErrorDetails

\* C5 as stated: a request without resumes is answered with empty matches
\* and no best candidate, not with an error.
C5_EmptyBatchNotAnError ==
    EmptyBatchAnswered =>
        /\ response.status = 200
        /\ response.matches = << >>
        /\ response.best = << >>

\* C5 amended: a request without resumes is refused with status 400, "At
\* least one resume must be uploaded"; so the ranking of no record, which is
\* no matches and no best candidate, is never what a request is answered
\* with: a response with matches holds at least one, and the first of them
\* as the best candidate.
C5_EmptyBatchRefused ==
    /\ rank(<< >>) = [matches |-> << >>, best |-> << >>]
    /\ EmptyBatchAnswered =>
          /\ pc = "error"
          /\ response.status = 400
          /\ response.detail = "At least one resume must be uploaded"
    /\ pc = "done" =>
          /\ response.matches # << >>
          /\ response.best = <<response.matches[1]>>

\* C5 witness: a request with a job description and no resume was refused.
C5_Witness ==
    /\ EmptyBatchAnswered
    /\ jd_raw # << >>
    /\ pc = "error"
    /\ response.status = 400

GenerationFailedRemark == JStr(FailureRemark("HTTPException"))

\* C9: when the generation call for a resume fails, the resume gets the
\* fallback record naming the failure; the request does not end with an error
\* because of it (an error after it is the failed extraction of the next
\* resume); the loop goes on to the next resume, and after the last one the
\* response with one record per resume is returned.
C9_GenerationFailureAbsorbed ==
    answer.kind = "error" =>
        LET n == Len(produced) IN
        /\ n >= 1
        /\ produced[n].filename = resumes[n].filename
        /\ IsFallback(produced[n])
        /\ produced[n].remarks = GenerationFailedRemark
        /\ pc # "done" =>
              /\ pc \in {"read", "score", "error"}
              /\ i = n + 1
              /\ i <= Len(resumes)
        /\ pc = "error" => read_upload_text(resumes[i]).exc # "none"
        /\ pc = "done" =>
              /\ n = Len(resumes)
              /\ response.status = 200
              /\ Len(response.matches) = Len(resumes)

\* C9 witness: the generation call failed for the first of three resumes, the
\* two others were scored from their answers, and the response was returned.
C9_Witness ==
    /\ pc = "done"
    /\ Len(resumes) = 3
    /\ produced[1].remarks = GenerationFailedRemark
    /\ produced[2].score = 85
    /\ produced[3].score = 40
    /\ response.status = 200
    /\ Len(response.matches) = 3

\* --------------------------------------- claims on _read_upload_text
\* The call of _read_upload_text on the upload of SpecRead has ended.
CallEnded == pc # "read"

\* C7: however _read_upload_text ends, by a return or by an exception, the
\* failing read of the stream included, the stream of the upload is closed
\* (unless close() itself failed and left it open).
C7_StreamClosedOnEveryExit ==
    (CallEnded /\ resumes[1].close # "raises_open") => closed[1]

\* The upload is decoded as text: its suffix is not .pdf, .docx or .doc.
PlainText(up) == Suffix(Lower(up.filename)) \notin {".pdf", ".docx", ".doc"}

\* Byte q of b starts a well-formed sequence of one or two bytes.
StartsUnit(b, q) ==
    \/ IsAscii(b[q])
    \/ IsLead2(b[q]) /\ q < Len(b) /\ IsContinuation(b[q + 1])

\* Byte q of b is the second byte of a well-formed sequence.
EndsUnit(b, q) == q > 1 /\ IsContinuation(b[q]) /\ IsLead2(b[q - 1])

\* Byte q of b cannot be decoded.
Undecodable(b, q) == ~StartsUnit(b, q) /\ ~EndsUnit(b, q)

\* What byte q of b gives the text, an undecodable byte giving marker.
PieceAt(b, q, marker) ==
    IF IsAscii(b[q]) THEN <<b[q]>>
    ELSE IF StartsUnit(b, q) THEN <<(b[q] - 192) * 64 + (b[q + 1] - 128)>>
    ELSE IF EndsUnit(b, q) THEN << >>
    ELSE marker

RECURSIVE PiecesUpTo(_, _, _)
\* The pieces of bytes 1..q of b, in order.
PiecesUpTo(b, q, marker) ==
    IF q = 0 THEN << >> ELSE PiecesUpTo(b, q - 1, marker) \o PieceAt(b, q, marker)

\* A plain-text upload whose stream could be read has been through the call.
PlainTextRead == CallEnded /\ PlainText(resumes[1]) /\ ~resumes[1].read_raises

\* C8 as stated: the call does not raise, and the text holds a replacement
\* marker in the place of every byte that cannot be decoded.
C8_UndecodableBytesReplaced ==
    PlainTextRead =>
        /\ pc = "score"
        /\ res_text = PiecesUpTo(resumes[1].content, Len(resumes[1].content),
                                 ReplacementMarker)

\* C8 amended: the call does not raise, and the text is that of the
\* well-formed sequences alone: every byte that cannot be decoded is removed,
\* and nothing marks its place.
C8_UndecodableBytesDropped ==
    PlainTextRead =>
        /\ pc = "score"
        /\ res_text = PiecesUpTo(resumes[1].content, Len(resumes[1].content), << >>)
        /\ \A q \in 1..Len(res_text) : <<res_text[q]>> # ReplacementMarker

\* C8 witness: of a content with an undecodable byte before the two bytes
\* of U+00E9, the text returned is that one character.
C8_Witness ==
    /\ PlainTextRead
    /\ resumes[1].content = <<255, 195, 169>>
    /\ Undecodable(resumes[1].content, 1)
    /\ res_text = <<233>>

====
